---- MODULE Spec2Model ----
(***************************************************************************)
(* Model of src/server.js: the POST /gif and POST /video-info handlers,    *)
(* their temp-file lifecycle, the subprocess callbacks, and the pure       *)
(* helpers escapeShellPath, isValidVideoFile and the parameter             *)
(* normalisation.  Strings are sequences of one-character strings.         *)
(***************************************************************************)
EXTENDS Integers, Sequences, FiniteSets, TLC

VARIABLES now, disk, jobs, rawBody, params, shName, shResult, nodeEnv, errText, reply

vars == <<now, disk, jobs, rawBody, params, shName, shResult, nodeEnv, errText, reply>>

(* ---------------------------- bounds ----------------------------------- *)
NumJobs == 2
MaxRawLen == 4
MaxNameLen == 3
MaxDiagLen == 3

Jobs == 1..NumJobs

(* ------------------------ string helpers ------------------------------- *)
\* JS null (and the empty string, which `x && ...` treats alike)
Null == <<>>

RECURSIVE SeqsUpTo(_, _)
SeqsUpTo(S, n) ==
  IF n = 0 THEN {<<>>}
  ELSE LET shorter == SeqsUpTo(S, n - 1)
       IN shorter \cup {Append(s, c) : s \in {t \in shorter : Len(t) = n - 1}, c \in S}

DigitChar == <<"0","1","2","3","4","5","6","7","8","9">>

\* template-literal formatting of a non-negative integer
RECURSIVE ToStr(_)
ToStr(n) == IF n < 10 THEN <<DigitChar[n + 1]>>
            ELSE ToStr(n \div 10) \o <<DigitChar[(n % 10) + 1]>>

UpperToLower ==
  [c \in {"A","B","C","D","E","F","G","H","I","J","K","L","M","N","O","P","Q",
          "R","S","T","U","V","W","X","Y","Z"} |->
     CASE c = "A" -> "a" [] c = "B" -> "b" [] c = "C" -> "c" [] c = "D" -> "d"
       [] c = "E" -> "e" [] c = "F" -> "f" [] c = "G" -> "g" [] c = "H" -> "h"
       [] c = "I" -> "i" [] c = "J" -> "j" [] c = "K" -> "k" [] c = "L" -> "l"
       [] c = "M" -> "m" [] c = "N" -> "n" [] c = "O" -> "o" [] c = "P" -> "p"
       [] c = "Q" -> "q" [] c = "R" -> "r" [] c = "S" -> "s" [] c = "T" -> "t"
       [] c = "U" -> "u" [] c = "V" -> "v" [] c = "W" -> "w" [] c = "X" -> "x"
       [] c = "Y" -> "y" [] c = "Z" -> "z"]

\* String.prototype.toLowerCase
toLowerCase(s) ==
  [i \in 1..Len(s) |-> IF s[i] \in DOMAIN UpperToLower THEN UpperToLower[s[i]] ELSE s[i]]

\* index of the last occurrence of character c in s, 0 when there is none
LastIndexOf(s, c) ==
  IF \E i \in 1..Len(s) : s[i] = c
  THEN CHOOSE i \in 1..Len(s) : s[i] = c /\ \A k \in (i + 1)..Len(s) : s[k] # c
  ELSE 0

\* path.extname of a base name (upload names carry no directory part)
extname(filename) ==
  LET i == LastIndexOf(filename, ".")
  IN IF i <= 1 \/ filename = <<".", ".">> THEN <<>>
     ELSE SubSeq(filename, i, Len(filename))

(* ------------------------ PathSafety ----------------------------------- *)
validExtensions ==
  { <<".","m","p","4">>, <<".","a","v","i">>, <<".","m","o","v">>,
    <<".","m","k","v">>, <<".","w","m","v">>, <<".","f","l","v">>,
    <<".","w","e","b","m">> }

\* a check that only asks for some extension
isValidVideoFile_AnyExtension(filename) == extname(filename) # <<>>

isValidVideoFile(filename) == toLowerCase(extname(filename)) \in validExtensions

\* String.prototype.replace(/"/g, '\\"')
RECURSIVE ReplaceQuotes(_)
ReplaceQuotes(s) ==
  IF s = <<>> THEN <<>>
  ELSE (IF Head(s) = "\"" THEN <<"\\", "\"">> ELSE <<Head(s)>>) \o ReplaceQuotes(Tail(s))

escapeShellPath(filePath) == <<"\"">> \o ReplaceQuotes(filePath) \o <<"\"">>

(* ------------------------ temp paths ----------------------------------- *)
tempDir == <<"/","t","m","p">>

\* path.join(tempDir, base) for a base name without separators or dots-only parts
PathJoin(dir, base) == dir \o <<"/">> \o base

GifInputPath(timestamp, name) ==
  PathJoin(tempDir, <<"i","n","p","u","t","-">> \o ToStr(timestamp) \o <<"-">> \o name)

GifOutputPath(timestamp) ==
  PathJoin(tempDir, <<"g","i","f","-">> \o ToStr(timestamp) \o <<".","g","i","f">>)

InfoInputPath(timestamp, name) ==
  PathJoin(tempDir, <<"i","n","f","o","-">> \o ToStr(timestamp) \o <<"-">> \o name)

\* the file the upload middleware persists (useTempFiles, tempFileDir "/tmp/"):
\* a name made unique by a per-upload counter
UploadTempPath(j, timestamp) ==
  <<"/","t","m","p","/","t","m","p","-">> \o ToStr(j) \o <<"-">> \o ToStr(timestamp)

(* ------------------------ filesystem ----------------------------------- *)
\* disk: function from the existing paths to their size class (0 empty, 1 data)
existsSync(d, p) == p \in DOMAIN d

WriteFile(d, p, size) == [q \in (DOMAIN d) \cup {p} |-> IF q = p THEN size ELSE d[q]]

RemoveFile(d, p) == [q \in (DOMAIN d) \ {p} |-> d[q]]

EmptyDisk == [q \in {} |-> 0]

\* fs.rename: the source disappears, the destination is replaced
MoveFile(d, from, to) == WriteFile(RemoveFile(d, from), to, d[from])

(* ------------------------ ParameterNormalizer -------------------------- *)
\* characters of the raw form fields
RawChars == {"0", "1", "3", "9", "-", ".", "a", " "}

\* a raw field: a string; the empty string also stands for an absent field,
\* which parseInt and parseFloat read as the text "undefined"
RawInputs == SeqsUpTo(RawChars, MaxRawLen)

IsDigit(c) == c \in {"0","1","2","3","4","5","6","7","8","9"}

DigitVal(c) == CHOOSE n \in 0..9 : DigitChar[n + 1] = c

\* the input without its leading white space
RECURSIVE TrimStart(_)
TrimStart(s) == IF s # <<>> /\ Head(s) = " " THEN TrimStart(Tail(s)) ELSE s

\* length of the longest prefix of s made of digits
RECURSIVE DigitRun(_)
DigitRun(s) == IF s # <<>> /\ IsDigit(Head(s)) THEN 1 + DigitRun(Tail(s)) ELSE 0

\* value of a string of digits
RECURSIVE DigitsValue(_)
DigitsValue(s) ==
  IF s = <<>> THEN 0 ELSE 10 * DigitsValue(SubSeq(s, 1, Len(s) - 1)) + DigitVal(s[Len(s)])

RECURSIVE Pow10(_)
Pow10(n) == IF n = 0 THEN 1 ELSE 10 * Pow10(n - 1)

NaN == [nan |-> TRUE, val |-> 0]

Num(v) == [nan |-> FALSE, val |-> v]

\* parseInt(s), radix 10: white space, sign, digits; NaN without a digit
parseInt(s) ==
  LET t    == TrimStart(s)
      neg  == t # <<>> /\ Head(t) = "-"
      body == IF neg THEN Tail(t) ELSE t
      n    == DigitRun(body)
  IN IF n = 0 THEN NaN
     ELSE Num((IF neg THEN -1 ELSE 1) * DigitsValue(SubSeq(body, 1, n)))

\* floats are counted in units of 1/FloatUnit, exact for every raw input (at
\* most MaxRawLen - 1 digits follow the dot)
FloatUnit == Pow10(MaxRawLen - 1)

\* parseFloat(s): white space, sign, digits with an optional fraction, or a
\* fraction alone; NaN when no digit is read
parseFloat(s) ==
  LET t     == TrimStart(s)
      neg   == t # <<>> /\ Head(t) = "-"
      body  == IF neg THEN Tail(t) ELSE t
      n     == DigitRun(body)
      rest  == SubSeq(body, n + 1, Len(body))
      dot   == rest # <<>> /\ Head(rest) = "."
      m     == IF dot THEN DigitRun(Tail(rest)) ELSE 0
      whole == DigitsValue(SubSeq(body, 1, n)) * FloatUnit
      frac  == IF m = 0 THEN 0
               ELSE DigitsValue(SubSeq(rest, 2, m + 1)) * (FloatUnit \div Pow10(m))
  IN IF n = 0 /\ m = 0 THEN NaN
     ELSE Num((IF neg THEN -1 ELSE 1) * (whole + frac))

\* x || d: d replaces NaN and also 0
OrDefault(x, d) == IF x.nan \/ x.val = 0 THEN d ELSE x.val

Max(a, b) == IF a >= b THEN a ELSE b

Min(a, b) == IF a <= b THEN a ELSE b

\* the settings read without their range limits
normalize_Unclamped(body) ==
  [fps       |-> OrDefault(parseInt(body.fps), 15),
   scale     |-> OrDefault(parseInt(body.scale), 480),
   startTime |-> OrDefault(parseFloat(body.startTime), 0),
   duration  |-> OrDefault(parseFloat(body.duration), 0)]

\* the four settings read from req.body
normalize(body) ==
  [fps       |-> Max(5, Min(30, OrDefault(parseInt(body.fps), 15))),
   scale     |-> Max(240, Min(1920, OrDefault(parseInt(body.scale), 480))),
   startTime |-> Max(0, OrDefault(parseFloat(body.startTime), 0)),
   duration  |-> Max(0, OrDefault(parseFloat(body.duration), 0))]

(* ------------------------ CommandBuilder ------------------------------- *)
\* the path exported by ffmpeg-static
ffmpegPath == <<"f","f","m","p","e","g">>

filterComplex(fps, scale) ==
  <<"f","p","s","=">> \o ToStr(fps) \o <<",","s","c","a","l","e","=">> \o ToStr(scale) \o
  <<":","-","1",":","f","l","a","g","s","=","l","a","n","c","z","o">> \o
  <<"s",",","s","p","l","i","t","[","s","0","]","[","s","1","]",";">> \o
  <<"[","s","0","]","p","a","l","e","t","t","e","g","e","n","=","m">> \o
  <<"a","x","_","c","o","l","o","r","s","=","2","5","6",":","r","e">> \o
  <<"s","e","r","v","e","_","t","r","a","n","s","p","a","r","e","n">> \o
  <<"t","=","0",":","s","t","a","t","s","_","m","o","d","e","=","s">> \o
  <<"i","n","g","l","e","[","p","]",";","[","s","1","]","[","p","]">> \o
  <<"p","a","l","e","t","t","e","u","s","e","=","d","i","t","h","e">> \o
  <<"r","=","f","l","o","y","d","_","s","t","e","i","n","b","e","r">> \o
  <<"g",":","d","i","f","f","_","m","o","d","e","=","r","e","c","t">> \o
  <<"a","n","g","l","e">>

\* the /gif command line, for whole-second startTime and duration
BuildGifCommand(p, inputPath, outputPath) ==
  escapeShellPath(ffmpegPath)
  \o (IF p.startTime > 0 THEN <<" ","-","s","s"," ">> \o ToStr(p.startTime \div FloatUnit) ELSE <<>>)
  \o <<" ","-","i"," ">> \o escapeShellPath(inputPath)
  \o (IF p.duration > 0 THEN <<" ","-","t"," ">> \o ToStr(p.duration \div FloatUnit) ELSE <<>>)
  \o <<" ","-","f","i","l","t","e","r","_","c","o","m","p","l","e","x"," ">>
  \o <<"\"">> \o filterComplex(p.fps, p.scale) \o <<"\"">>
  \o <<" ","-","y">>
  \o <<" ">> \o escapeShellPath(outputPath)

(* ------------------------ the shell exec runs the command in ----------- *)
Letters == (DOMAIN UpperToLower) \cup {UpperToLower[c] : c \in DOMAIN UpperToLower}

\* characters that start a parameter, command or arithmetic expansion after "$"
ExpansionStart(c) ==
  c \in Letters \/ IsDigit(c) \/ c \in {"_", "@", "*", "#", "?", "-", "$", "!", "{", "("}

\* characters that stand for themselves outside quotes
UnquotedPlain(c) ==
  c \in Letters \/ IsDigit(c) \/ c \in {"-", "_", ".", "/", ":", ",", "=", "+", "%"}

\* the backquote character (a TLA+ string cannot hold it)
Backtick == "BACKQUOTE"

\* characters the shell reads specially inside double quotes
DqSpecial(c) == c \in {"\"", "\\", "$", Backtick}

\* first position from i on whose character is not literal in the mode, or
\* Len(s) + 1: a run of literal characters is read in one step
RunEnd(s, i, mode) ==
  LET lit(k) == IF mode = "dq" THEN ~DqSpecial(s[k]) ELSE UnquotedPlain(s[k])
  IN CHOOSE k \in i..(Len(s) + 1) :
       /\ k = Len(s) + 1 \/ ~lit(k)
       /\ \A m \in i..(k - 1) : lit(m)

Broken == [words |-> <<>>, intact |-> FALSE]

\* sh -c word splitting of s from position i.  mode is "plain" or "dq" (inside
\* double quotes), cur the word being read, open whether a word has started.
\* Inside double quotes a backslash escapes only $, backquote, double quote and
\* backslash; outside quotes it escapes any character.  intact is FALSE as soon as the line does more than pass literal words: an
\* expansion, a command substitution, an operator or glob character outside
\* quotes, or a quote left open.
RECURSIVE ShScan(_, _, _, _, _, _)
ShScan(s, i, mode, cur, open, words) ==
  IF i > Len(s)
  THEN IF mode = "dq" THEN Broken
       ELSE [words |-> IF open THEN Append(words, cur) ELSE words, intact |-> TRUE]
  ELSE
    LET c == s[i]
        n == IF i < Len(s) THEN s[i + 1] ELSE ""
        e == RunEnd(s, i, mode)
    IN IF e > i
       THEN ShScan(s, e, mode, cur \o SubSeq(s, i, e - 1), TRUE, words)
       ELSE IF mode = "plain"
       THEN CASE c = " "  -> ShScan(s, i + 1, "plain", <<>>, FALSE,
                                    IF open THEN Append(words, cur) ELSE words)
              [] c = "\"" -> ShScan(s, i + 1, "dq", cur, TRUE, words)
              [] c = "\\" -> IF i < Len(s)
                             THEN ShScan(s, i + 2, "plain", Append(cur, n), TRUE, words)
                             ELSE ShScan(s, i + 1, "plain", Append(cur, c), TRUE, words)
              [] c = "$"  -> IF ExpansionStart(n) \/ n = "\"" THEN Broken
                             ELSE ShScan(s, i + 1, "plain", Append(cur, c), TRUE, words)
              [] OTHER    -> Broken
       ELSE CASE c = "\"" -> ShScan(s, i + 1, "plain", cur, TRUE, words)
              [] c = "\\" -> IF n \in {"$", Backtick, "\"", "\\"}
                             THEN ShScan(s, i + 2, "dq", Append(cur, n), TRUE, words)
                             ELSE ShScan(s, i + 1, "dq", Append(cur, c), TRUE, words)
              [] c = "$"  -> IF ExpansionStart(n) THEN Broken
                             ELSE ShScan(s, i + 1, "dq", Append(cur, c), TRUE, words)
              [] OTHER    -> Broken

ShellSplit(command) == ShScan(command, 1, "plain", <<>>, FALSE, <<>>)

(* ------------------------ requests and jobs ---------------------------- *)
\* what a request carries in its `video` field: nothing, a file with a refused
\* name, a file with an allowed name (in upper case), the same file empty
Uploads ==
  { [hasFile |-> FALSE, name |-> <<>>, size |-> 0],
    [hasFile |-> TRUE, name |-> <<"a",".","t","x","t">>, size |-> 1],
    [hasFile |-> TRUE, name |-> <<"a",".","M","P","4">>, size |-> 1],
    [hasFile |-> TRUE, name |-> <<"a",".","M","P","4">>, size |-> 0] }

\* diagnostic texts of the transcoder, as the sequence of phrases they contain
GifDiags == { <<"frame dropped">>, <<"No such file", "Invalid data found">> }

ProbeDiags == { <<>>, <<"Duration: 00:01:05.50">>, <<"moov atom not found">> }

includes(text, phrase) == \E i \in 1..Len(text) : text[i] = phrase

NewJob ==
  [pc |-> "new", kind |-> "none", hasFile |-> FALSE, name |-> <<>>, timestamp |-> 0,
   uploadPath |-> Null, inputPath |-> Null, outputPath |-> Null,
   headersSent |-> FALSE, status |-> 0, error |-> "none", resEnded |-> FALSE,
   moved |-> FALSE, spawned |-> FALSE, code |-> 0, signal |-> "none",
   stderr |-> <<>>, trace |-> {}, nCleanup |-> 0, delIn |-> 0, delOut |-> 0,
   refound |-> FALSE, delErr |-> FALSE, raised |-> FALSE]

\* res.status(st).json({error: msg}): throws when the headers are already sent
Send(jr, st, msg) ==
  IF jr.headersSent
  THEN [jr EXCEPT !.raised = TRUE]
  ELSE [jr EXCEPT !.headersSent = TRUE, !.status = st, !.error = msg, !.resEnded = TRUE]

\* an exception that leaves a callback outside any try block ends the job's handling
Settle(jr, pcNext) == [jr EXCEPT !.pc = IF jr.raised THEN "crashed" ELSE pcNext]

\* function cleanup(): fIn / fOut say whether unlinkSync of that path throws.
\* Both unlinks sit in one try block, so a throw on the first skips the second.
cleanup(jr, d, fIn, fOut) ==
  LET inFound  == jr.inputPath # Null /\ existsSync(d, jr.inputPath)
      inThrows == inFound /\ fIn
      d1       == IF inFound /\ ~fIn THEN RemoveFile(d, jr.inputPath) ELSE d
      outFound == ~inThrows /\ jr.outputPath # Null /\ existsSync(d1, jr.outputPath)
      d2       == IF outFound /\ ~fOut THEN RemoveFile(d1, jr.outputPath) ELSE d1
  IN [disk |-> d2,
      \* "outputSkipped": the throw on the input left an existing output untried
      job  |-> [jr EXCEPT !.nCleanup = @ + 1,
                          !.trace = @ \cup (IF inThrows /\ jr.outputPath # Null
                                                /\ existsSync(d, jr.outputPath)
                                             THEN {"outputSkipped"} ELSE {}),
                          !.delIn = @ + (IF inFound /\ ~fIn THEN 1 ELSE 0),
                          !.delOut = @ + (IF outFound /\ ~fOut THEN 1 ELSE 0),
                          !.refound = @ \/ (jr.nCleanup > 0 /\ (inFound \/ outFound)),
                          !.delErr = @ \/ inThrows \/ (outFound /\ fOut)]]

\* the catch block of the /gif handler
GifCatch(jr, d, fIn, fOut) ==
  LET c == cleanup([jr EXCEPT !.trace = @ \cup {"catch"}], d, fIn, fOut)
  IN [disk |-> c.disk, job |-> Settle(Send(c.job, 500, "Internal server error"), "done")]

(* ------------------------ state ---------------------------------------- *)
Init ==
  /\ now = 0
  /\ disk = EmptyDisk
  /\ jobs = [j \in Jobs |-> NewJob]
  /\ rawBody = <<>>
  /\ params = <<>>
  /\ shName = <<>>
  /\ shResult = <<>>
  /\ nodeEnv = "unset"
  /\ errText = <<>>
  /\ reply = <<>>

pureVars == <<rawBody, params, shName, shResult, nodeEnv, errText, reply>>

\* Date.now() advances.  Handlers read the clock only to name their temp files,
\* so a clock value no request has read, or that no later request will read,
\* is not distinguished from the next one.
Tick ==
  /\ \E j \in Jobs : jobs[j].pc # "new" /\ jobs[j].timestamp = now
  /\ \E j \in Jobs : jobs[j].pc = "new"
  /\ now' = now + 1
  /\ UNCHANGED <<disk, jobs, pureVars>>

\* requests are numbered in the order the upload middleware finishes them
NextToArrive(j) == jobs[j].pc = "new" /\ \A k \in Jobs : k < j => jobs[k].pc # "new"

\* the upload middleware persists the upload, then the route's synchronous part runs
Persist(j, up) ==
  IF up.hasFile THEN WriteFile(disk, UploadTempPath(j, now), up.size) ELSE disk

Arrived(j, up, kind) ==
  [jobs[j] EXCEPT !.kind = kind, !.hasFile = up.hasFile, !.name = up.name,
                  !.timestamp = now,
                  !.uploadPath = IF up.hasFile THEN UploadTempPath(j, now) ELSE Null]

\* app.post("/gif"): from the request to the first await (video.mv)
GifRequest(j) ==
  /\ NextToArrive(j)
  /\ \E up \in Uploads :
       LET jr == Arrived(j, up, "gif")
       IN /\ disk' = Persist(j, up)
          /\ jobs' = [jobs EXCEPT ![j] =
               IF ~up.hasFile
               THEN Settle(Send(jr, 400, "No video uploaded"), "done")
               ELSE IF ~isValidVideoFile(up.name)
               THEN Settle(Send(jr, 400, "Invalid video file format"), "done")
               ELSE [jr EXCEPT !.inputPath = GifInputPath(now, up.name),
                               !.outputPath = GifOutputPath(now),
                               !.pc = "mv"]]
  /\ UNCHANGED <<now, pureVars>>

\* app.post("/gif"): video.mv settles; size check; command built and exec called
GifMvDone(j) ==
  /\ jobs[j].pc = "mv" /\ jobs[j].kind = "gif"
  /\ \E ok \in BOOLEAN, fIn \in BOOLEAN, fOut \in BOOLEAN :
       LET jr == jobs[j]
           d1 == IF ok THEN MoveFile(disk, jr.uploadPath, jr.inputPath) ELSE disk
           j1 == [jr EXCEPT !.moved = ok]
           bad == ~ok \/ ~existsSync(d1, jr.inputPath) \/ d1[jr.inputPath] = 0
           c  == GifCatch(j1, d1, fIn, fOut)
       IN IF bad
          THEN disk' = c.disk /\ jobs' = [jobs EXCEPT ![j] = c.job]
          ELSE disk' = d1 /\ jobs' = [jobs EXCEPT ![j] = [j1 EXCEPT !.spawned = TRUE, !.pc = "exec"]]
  /\ UNCHANGED <<now, pureVars>>

\* the transcoder leaves its output file absent, empty or with data
ChildWrites(d, p, out) ==
  IF out = "none" THEN d ELSE WriteFile(d, p, IF out = "empty" THEN 0 ELSE 1)

\* how a transcoder run can end: exit 0 with the output absent, empty or
\* written; exit 1 or the deadline's kill, with some diagnostic text and the
\* output absent or partly written
ChildOutcomes ==
  {[outcome |-> "ok", out |-> o, text |-> <<>>] : o \in {"none", "empty", "data"}} \cup
  {[outcome |-> "fail", out |-> o, text |-> t] : o \in {"none", "data"}, t \in GifDiags} \cup
  {[outcome |-> "timeout", out |-> o, text |-> <<"frame dropped">>] : o \in {"none", "data"}}

\* the child ends (exit 0, exit 1, or killed at the 120 s deadline) and the
\* child.on("exit") handler runs
GifChildExit(j) ==
  /\ jobs[j].pc = "exec" /\ jobs[j].kind = "gif"
  /\ \E ex \in ChildOutcomes, fIn \in BOOLEAN, fOut \in BOOLEAN :
       LET jr == jobs[j]
           d1 == ChildWrites(disk, jr.outputPath, ex.out)
           j1 == [jr EXCEPT !.code = IF ex.outcome = "fail" THEN 1 ELSE 0,
                            !.signal = IF ex.outcome = "timeout" THEN "SIGTERM" ELSE "none",
                            !.stderr = ex.text]
           c  == cleanup([j1 EXCEPT !.trace = @ \cup {"timeout"}], d1, fIn, fOut)
           j2 == IF ~c.job.headersSent
                 THEN Send(c.job, 500, "Processing timed out - video may be too large or complex")
                 ELSE c.job
       IN IF j1.signal = "SIGTERM"
          THEN disk' = c.disk /\ jobs' = [jobs EXCEPT ![j] = Settle(j2, "exited")]
          ELSE disk' = d1 /\ jobs' = [jobs EXCEPT ![j] = Settle(j1, "exited")]
  /\ UNCHANGED <<now, pureVars>>

\* a classification that looks for the missing file first
Classify_NotFoundFirst(stderr) ==
  IF includes(stderr, "No such file") THEN "File not found or access denied"
  ELSE IF includes(stderr, "Invalid data found") THEN "Invalid or corrupted video file"
  ELSE IF includes(stderr, "Permission denied") THEN "Permission denied accessing file"
  ELSE "FFmpeg processing failed"

\* error classification of the exec callback, first match wins
Classify(stderr) ==
  IF includes(stderr, "Invalid data found") THEN "Invalid or corrupted video file"
  ELSE IF includes(stderr, "No such file") THEN "File not found or access denied"
  ELSE IF includes(stderr, "Permission denied") THEN "Permission denied accessing file"
  ELSE "FFmpeg processing failed"

\* a callback that streams after any clean exit, without looking at the output
GifExecCallback_NoOutputCheck(j) ==
  /\ jobs[j].pc = "exited" /\ jobs[j].kind = "gif"
  /\ LET jx  == jobs[j]
         err == jx.code # 0 \/ jx.signal # "none"
         jr  == [jx EXCEPT !.code = 0, !.signal = "none", !.stderr = <<>>]
     IN jobs' = [jobs EXCEPT ![j] =
          IF err
          THEN Settle(Send([jr EXCEPT !.trace = @ \cup {"procfail"}], 500, Classify(jx.stderr)), "done")
          ELSE [jr EXCEPT !.trace = @ \cup {"stream"}, !.pc = "stream"]]
  /\ UNCHANGED <<now, disk, pureVars>>

\* the exec callback of /gif, on the child's close
GifExecCallback(j) ==
  /\ jobs[j].pc = "exited" /\ jobs[j].kind = "gif"
  /\ LET jx  == jobs[j]
         err == jx.code # 0 \/ jx.signal # "none"
         \* the callback's arguments are gone once it has run
         jr  == [jx EXCEPT !.code = 0, !.signal = "none", !.stderr = <<>>]
     IN jobs' = [jobs EXCEPT ![j] =
          IF err
          THEN Settle(Send([jr EXCEPT !.trace = @ \cup {"procfail"}], 500, Classify(jx.stderr)), "done")
          ELSE IF ~existsSync(disk, jr.outputPath)
          THEN Settle(Send([jr EXCEPT !.trace = @ \cup {"missing"}], 500,
                           "GIF generation failed - no output file created"), "done")
          ELSE IF disk[jr.outputPath] = 0
          THEN Settle(Send([jr EXCEPT !.trace = @ \cup {"empty"}], 500,
                           "GIF generation failed - empty output file"), "done")
          ELSE [jr EXCEPT !.trace = @ \cup {"stream"}, !.pc = "stream"]]
  /\ UNCHANGED <<now, disk, pureVars>>

\* fileStream.pipe(res) writes the first chunk: status line and headers go out
StreamData(j) ==
  /\ jobs[j].pc = "stream" /\ ~jobs[j].headersSent
  /\ existsSync(disk, jobs[j].outputPath)
  /\ jobs' = [jobs EXCEPT ![j] = [@ EXCEPT !.headersSent = TRUE, !.status = 200]]
  /\ UNCHANGED <<now, disk, pureVars>>

\* fileStream.on("end"): cleanup; pipe ends the response
StreamEnd(j) ==
  /\ jobs[j].pc = "stream" /\ jobs[j].headersSent
  /\ \E fIn \in BOOLEAN, fOut \in BOOLEAN :
       LET c == cleanup([jobs[j] EXCEPT !.trace = @ \cup {"end"}], disk, fIn, fOut)
       IN /\ disk' = c.disk
          /\ jobs' = [jobs EXCEPT ![j] = [c.job EXCEPT !.resEnded = TRUE, !.pc = "ended"]]
  /\ UNCHANGED <<now, pureVars>>

\* fileStream.on("error"): the open or a read fails while streaming, or the
\* close fails after the end; pipe does not end the response on a source error
StreamError(j) ==
  /\ jobs[j].pc \in {"stream", "ended"}
  /\ \E fIn \in BOOLEAN, fOut \in BOOLEAN :
       LET c  == cleanup([jobs[j] EXCEPT !.trace = @ \cup {"streamerr"}], disk, fIn, fOut)
           j2 == IF ~c.job.headersSent
                 THEN Send(c.job, 500, "Failed to send GIF file")
                 ELSE c.job
       IN /\ disk' = c.disk
          /\ jobs' = [jobs EXCEPT ![j] = Settle(j2, "done")]
  /\ UNCHANGED <<now, pureVars>>

\* the client goes away while the file is piped: pipe unpipes the source, which
\* stays paused and emits neither end nor error
ClientDisconnect(j) ==
  /\ jobs[j].pc = "stream"
  /\ jobs' = [jobs EXCEPT ![j] = [@ EXCEPT !.trace = @ \cup {"disconnect"}, !.pc = "stalled"]]
  /\ UNCHANGED <<now, disk, pureVars>>

(* ------------------------ /video-info ---------------------------------- *)
\* app.post("/video-info"): from the request to the await of video.mv.  The
\* handler never looks at the size of the upload, so one size is tried.
InfoRequest(j) ==
  /\ NextToArrive(j)
  /\ \E up \in {u \in Uploads : u.hasFile => u.size = 1} :
       LET jr == Arrived(j, up, "info")
       IN /\ disk' = Persist(j, up)
          /\ jobs' = [jobs EXCEPT ![j] =
               IF ~up.hasFile
               THEN Settle(Send(jr, 400, "No video uploaded"), "done")
               ELSE IF ~isValidVideoFile(up.name)
               THEN Settle(Send(jr, 400, "Invalid video file format"), "done")
               ELSE [jr EXCEPT !.inputPath = InfoInputPath(now, up.name), !.pc = "mv"]]
  /\ UNCHANGED <<now, pureVars>>

\* app.post("/video-info"): video.mv settles; on success exec is called, on
\* failure the catch block unlinks inside its own try and answers 500
InfoMvDone(j) ==
  /\ jobs[j].pc = "mv" /\ jobs[j].kind = "info"
  /\ \E ok \in BOOLEAN, fIn \in BOOLEAN :
       LET jr == jobs[j]
           d1 == MoveFile(disk, jr.uploadPath, jr.inputPath)
           found == existsSync(disk, jr.inputPath)
           d2 == IF found /\ ~fIn THEN RemoveFile(disk, jr.inputPath) ELSE disk
           j2 == [jr EXCEPT !.trace = @ \cup {"catch"},
                            !.delIn = @ + (IF found /\ ~fIn THEN 1 ELSE 0),
                            !.delErr = @ \/ (found /\ fIn)]
       IN IF ok
          THEN /\ disk' = d1
               /\ jobs' = [jobs EXCEPT ![j] = [jr EXCEPT !.moved = TRUE, !.spawned = TRUE, !.pc = "exec"]]
          ELSE /\ disk' = d2
               /\ jobs' = [jobs EXCEPT ![j] = Settle(Send(j2, 500, "Internal server error "), "done")]
  /\ UNCHANGED <<now, pureVars>>

\* the probe command ends in "2>&1": the shell sends the probe's error stream
\* into its output stream
ProbeRedirectsStderr == TRUE

\* what exec hands to its callback for a child that wrote diag to its error stream
ExecStreams(redirect, diag) ==
  IF redirect THEN [stdout |-> diag, stderr |-> <<>>]
  ELSE [stdout |-> <<>>, stderr |-> diag]

\* stderr.match(/Duration: (\d{2}):(\d{2}):(\d{2})\.(\d{2})/)
durationMatch(text) == includes(text, "Duration: 00:01:05.50")

\* the exec callback of /video-info (child ended or killed at the 30 s deadline):
\* the unlink is outside any try block
InfoExecCallback(j) ==
  /\ jobs[j].pc = "exec" /\ jobs[j].kind = "info"
  /\ \E diag \in ProbeDiags, fIn \in BOOLEAN :
       LET jr == jobs[j]
           io == ExecStreams(ProbeRedirectsStderr, diag)
           found == jr.inputPath # Null /\ existsSync(disk, jr.inputPath)
           \* stderr keeps what the probe wrote to its error stream
           j1 == [jr EXCEPT !.stderr = diag,
                            !.delIn = @ + (IF found /\ ~fIn THEN 1 ELSE 0),
                            !.delErr = @ \/ (found /\ fIn)]
       IN IF found /\ fIn
          THEN /\ disk' = disk
               /\ jobs' = [jobs EXCEPT ![j] = Settle([j1 EXCEPT !.raised = TRUE], "done")]
          ELSE /\ disk' = (IF found THEN RemoveFile(disk, jr.inputPath) ELSE disk)
               /\ jobs' = [jobs EXCEPT ![j] =
                    IF io.stderr # <<>>
                    THEN IF durationMatch(io.stderr)
                         THEN Settle([Send(j1, 200, "none") EXCEPT !.trace = @ \cup {"metadata"}], "done")
                         ELSE Settle(Send(j1, 500, "Could not extract video information"), "done")
                    ELSE Settle(Send(j1, 500, "FFmpeg info extraction failed"), "done")]
  /\ UNCHANGED <<now, pureVars>>

(* ------------------------ specification -------------------------------- *)
Next ==
  \/ Tick
  \/ \E j \in Jobs : GifRequest(j)
  \/ \E j \in Jobs : GifMvDone(j)
  \/ \E j \in Jobs : GifChildExit(j)
  \/ \E j \in Jobs : GifExecCallback(j)
  \/ \E j \in Jobs : StreamData(j)
  \/ \E j \in Jobs : StreamEnd(j)
  \/ \E j \in Jobs : StreamError(j)
  \/ \E j \in Jobs : ClientDisconnect(j)
  \/ \E j \in Jobs : InfoRequest(j)
  \/ \E j \in Jobs : InfoMvDone(j)
  \/ \E j \in Jobs : InfoExecCallback(j)

Spec == Init /\ [][Next]_vars

(* ------------------------ the normaliser on its own -------------------- *)
\* req.body of a /gif request: every field carries the same raw text.
\* rawBody and params hold zero or one record.
InitNorm ==
  /\ now = 0
  /\ disk = EmptyDisk
  /\ jobs = [j \in Jobs |-> NewJob]
  /\ rawBody \in {<<[fps |-> r, scale |-> r, startTime |-> r, duration |-> r]>> : r \in RawInputs}
  /\ params = <<>>
  /\ shName = <<>>
  /\ shResult = <<>>
  /\ nodeEnv = "unset"
  /\ errText = <<>>
  /\ reply = <<>>

\* lines 66-73 of the /gif handler
Normalize ==
  /\ params = <<>>
  /\ params' = <<normalize(rawBody[1])>>
  /\ UNCHANGED <<now, disk, jobs, rawBody, shName, shResult, nodeEnv, errText, reply>>

NextNorm == Normalize

SpecNorm == InitNorm /\ [][NextNorm]_vars

(* ------------------------ the command line on its own ------------------ *)
\* characters of the upload names tried: a letter, a space and the characters
\* the shell reads specially inside double quotes
ShellChars == {"a", " ", "\"", "\\", "$", Backtick}

\* an accepted upload name: any stem, an allowed extension
ShellNames == {stem \o <<".","m","p","4">> : stem \in SeqsUpTo(ShellChars, MaxNameLen)}

\* the settings of a request that sends no form field
DefaultParams == normalize([fps |-> <<>>, scale |-> <<>>, startTime |-> <<>>, duration |-> <<>>])

InitShell ==
  /\ now = 0
  /\ disk = EmptyDisk
  /\ jobs = [j \in Jobs |-> NewJob]
  /\ rawBody = <<>>
  /\ params = <<>>
  /\ shName \in ShellNames
  /\ shResult = <<>>
  /\ nodeEnv = "unset"
  /\ errText = <<>>
  /\ reply = <<>>

\* lines 89-114 of the /gif handler: the command is built and handed to the shell
ExecGifCommand ==
  /\ shResult = <<>>
  /\ shResult' = <<ShellSplit(BuildGifCommand(DefaultParams, GifInputPath(now, shName),
                                              GifOutputPath(now)))>>
  /\ UNCHANGED <<now, disk, jobs, rawBody, params, shName, nodeEnv, errText, reply>>

NextShell == ExecGifCommand

SpecShell == InitShell /\ [][NextShell]_vars

(* ------------------------ the error bodies on their own ---------------- *)
\* values of process.env.NODE_ENV
NodeEnvs == {"unset", "production", "development", "test"}

\* phrases a diagnostic or error text is made of
DiagPhrases == {"Invalid data found", "No such file", "Permission denied", "frame dropped"}

DiagTexts == SeqsUpTo(DiagPhrases, MaxDiagLen)

\* a JSON field that is undefined is left out of the body
Undefined == [present |-> FALSE, text |-> <<>>]

Defined(text) == [present |-> TRUE, text |-> text]

\* process.env.NODE_ENV === "development" ? text : undefined
DetailsFor(env, text) == IF env = "development" THEN Defined(text) ELSE Undefined

\* err.message of a failed exec: "Command failed: <command>" and the child's stderr
ExecErrorMessage(stderr) == <<"Command failed">> \o stderr

\* body of the exec callback's error response of /gif
GifFailBody(env, stderr) == [error |-> Classify(stderr), details |-> DetailsFor(env, stderr)]

\* body sent by the catch block of /gif
GifCatchBody(env, message) ==
  [error |-> "Internal server error", details |-> DetailsFor(env, message)]

\* body sent by the catch block of /video-info
InfoCatchBody(env, message) ==
  [error |-> "Internal server error ", details |-> DetailsFor(env, message)]

\* body sent by GET /test-ffmpeg when the version command fails
TestFfmpegBody(env, message) == [error |-> "FFmpeg not working", details |-> Defined(message)]

\* body sent by the error-handling middleware
MiddlewareBody(env, message) ==
  [error |-> "Internal server error", details |-> DetailsFor(env, message)]

\* reply holds zero or one record
InitErrors ==
  /\ now = 0
  /\ disk = EmptyDisk
  /\ jobs = [j \in Jobs |-> NewJob]
  /\ rawBody = <<>>
  /\ params = <<>>
  /\ shName = <<>>
  /\ shResult = <<>>
  /\ nodeEnv \in NodeEnvs
  /\ errText \in DiagTexts
  /\ reply = <<>>

\* the transcoder of /gif fails having written errText to its error stream
GifFailReply ==
  /\ reply = <<>>
  /\ reply' = <<[from |-> "gif-exec", body |-> GifFailBody(nodeEnv, errText)]>>
  /\ UNCHANGED <<now, disk, jobs, rawBody, params, shName, shResult, nodeEnv, errText>>

\* the /gif handler throws an error whose message is errText
GifCatchReply ==
  /\ reply = <<>>
  /\ reply' = <<[from |-> "gif-catch", body |-> GifCatchBody(nodeEnv, errText)]>>
  /\ UNCHANGED <<now, disk, jobs, rawBody, params, shName, shResult, nodeEnv, errText>>

\* the /video-info handler throws an error whose message is errText
InfoCatchReply ==
  /\ reply = <<>>
  /\ reply' = <<[from |-> "info-catch", body |-> InfoCatchBody(nodeEnv, errText)]>>
  /\ UNCHANGED <<now, disk, jobs, rawBody, params, shName, shResult, nodeEnv, errText>>

\* the version command of /test-ffmpeg fails having written errText to its error stream
TestFfmpegReply ==
  /\ reply = <<>>
  /\ reply' = <<[from |-> "test-ffmpeg", body |-> TestFfmpegBody(nodeEnv, ExecErrorMessage(errText))]>>
  /\ UNCHANGED <<now, disk, jobs, rawBody, params, shName, shResult, nodeEnv, errText>>

\* an error whose message is errText reaches the error-handling middleware
MiddlewareReply ==
  /\ reply = <<>>
  /\ reply' = <<[from |-> "middleware", body |-> MiddlewareBody(nodeEnv, errText)]>>
  /\ UNCHANGED <<now, disk, jobs, rawBody, params, shName, shResult, nodeEnv, errText>>

NextErrors ==
  \/ GifFailReply
  \/ GifCatchReply
  \/ InfoCatchReply
  \/ TestFfmpegReply
  \/ MiddlewareReply

SpecErrors == InitErrors /\ [][NextErrors]_vars

(* ======================== properties =================================== *)
\* positions at which no handler of the job is still to run, except that a
\* read stream that has ended may still report an error of its close
Final == {"done", "ended", "stalled", "crashed"}

InFlight == {"mv", "exec", "exited", "stream"}

TimeoutMessage == "Processing timed out - video may be too large or complex"

\* the extension after the last dot, case folded, is not on the allow-list
Disallowed(name) == toLowerCase(extname(name)) \notin validExtensions

\* no other request was given one of the temp paths of job j
SharesNoPath(j) ==
  \A k \in Jobs \ {j} :
    /\ jobs[k].inputPath = Null \/ jobs[k].inputPath # jobs[j].inputPath
    /\ jobs[k].outputPath = Null \/ jobs[k].outputPath # jobs[j].outputPath

HasQuote(s) == \E i \in 1..Len(s) : s[i] = "\""

\* the arguments the /gif command is meant to pass
GifArgs(p, inputPath, outputPath) ==
  <<ffmpegPath>>
  \o (IF p.startTime > 0 THEN << <<"-","s","s">>, ToStr(p.startTime \div FloatUnit) >> ELSE <<>>)
  \o << <<"-","i">>, inputPath >>
  \o (IF p.duration > 0 THEN << <<"-","t">>, ToStr(p.duration \div FloatUnit) >> ELSE <<>>)
  \o << <<"-","f","i","l","t","e","r","_","c","o","m","p","l","e","x">>,
        filterComplex(p.fps, p.scale), <<"-","y">>, outputPath >>

\* C1: a /gif job whose input temp file was created and that ended in a failure
\* has had cleanup run once its error response is sent, and (unless a deletion
\* itself raised) neither its input nor its output temp file is on disk.
\* Stated for a job that shares its paths with no other job.
C1_FailureLeavesNoTempFile ==
  \A j \in Jobs :
    LET jr == jobs[j]
    IN (jr.kind = "gif" /\ jr.moved /\ jr.status = 500 /\ jr.pc \in Final /\ SharesNoPath(j))
       => /\ jr.nCleanup >= 1
          /\ ~jr.delErr => (~existsSync(disk, jr.inputPath) /\ ~existsSync(disk, jr.outputPath))

\* C2: a /gif job that reached the streaming stage and whose request is over
\* (stream ended, stream error, client gone) has had cleanup run, and (unless a
\* deletion itself raised) neither temp file is on disk.  Stated for a job that
\* shares its paths with no other job.
C2_StreamedJobLeavesNoTempFile ==
  \A j \in Jobs :
    LET jr == jobs[j]
    IN ("stream" \in jr.trace /\ jr.pc \in Final /\ SharesNoPath(j))
       => /\ jr.nCleanup >= 1
          /\ ~jr.delErr => (~existsSync(disk, jr.inputPath) /\ ~existsSync(disk, jr.outputPath))

\* C3: cleanup of one /gif job is idempotent: each of its temp files is deleted
\* at most once, and an invocation after the first finds nothing to delete.
C3_CleanupIdempotent ==
  \A j \in Jobs :
    jobs[j].kind = "gif" => (jobs[j].delIn <= 1 /\ jobs[j].delOut <= 1 /\ ~jobs[j].refound)

\* C4: two jobs in flight at the same time never have the same input temp path
\* or the same output temp path.
C4_PathsExclusive ==
  \A j, k \in Jobs :
    (j # k /\ jobs[j].pc \in InFlight /\ jobs[k].pc \in InFlight)
    => /\ jobs[j].inputPath # jobs[k].inputPath
       /\ (jobs[j].kind = "gif" /\ jobs[k].kind = "gif") => jobs[j].outputPath # jobs[k].outputPath

\* C5: for a /gif job whose deadline fired, the client gets the timeout error
\* and the process-failure branch of the exec callback is not executed.
C5_TimeoutIsNotProcessFailure ==
  \A j \in Jobs :
    "timeout" \in jobs[j].trace
    => /\ jobs[j].status = 500 /\ jobs[j].error = TimeoutMessage
       /\ "procfail" \notin jobs[j].trace

\* C6: every request whose handling is over has sent a response or has started
\* streaming one.
C6_ResponseNeverUnset ==
  \A j \in Jobs :
    jobs[j].pc \in Final => (jobs[j].headersSent \/ "stream" \in jobs[j].trace)

\* C7: once the response of a request that carried an upload is complete, the
\* file the upload layer persisted for it is no longer on disk.
C7_UploadFileRemoved ==
  \A j \in Jobs :
    (jobs[j].hasFile /\ jobs[j].resEnded) => ~existsSync(disk, jobs[j].uploadPath)

\* C8: a request without an upload, or with an upload whose extension is not
\* allowed, is answered 400, and at every moment from its arrival on no
\* subprocess has been spawned for it, no temp path has been assigned to it and
\* no file has been moved or created by its handler (the uploaded file is still
\* where the upload layer put it).
C8_RejectedBeforeAnyWork ==
  \A j \in Jobs :
    LET jr == jobs[j]
    IN (jr.pc # "new" /\ (~jr.hasFile \/ Disallowed(jr.name)))
       => /\ jr.status = 400 /\ jr.pc = "done"
          /\ ~jr.spawned /\ ~jr.moved
          /\ jr.inputPath = Null /\ jr.outputPath = Null
          /\ jr.hasFile => existsSync(disk, jr.uploadPath)
          /\ \A p \in DOMAIN disk :
               p \notin {GifInputPath(jr.timestamp, jr.name), InfoInputPath(jr.timestamp, jr.name)}

C8_Witness ==
  \E j, k \in Jobs :
    /\ jobs[j].hasFile /\ Disallowed(jobs[j].name) /\ jobs[j].status = 400
    /\ ~jobs[k].hasFile /\ jobs[k].status = 400

\* C9: for an upload name that contains a double quote, the shell reads the
\* built command as exactly the intended arguments, the input path among them
\* as one argument equal to the original path.
C9_QuotedPathIsOneArgument ==
  (shResult # <<>> /\ HasQuote(shName))
  => shResult[1] = [words |-> GifArgs(DefaultParams, GifInputPath(now, shName), GifOutputPath(now)),
                    intact |-> TRUE]

\* C10: a raw field that parses as a number normalises to that number clamped
\* to the field's range, and the default is used only when parsing fails; so
\* raw fps "0" gives 5 and raw scale "0" gives 240.
C10_ParsedNumberIsClamped ==
  params # <<>> =>
    LET b == rawBody[1]
        p == params[1]
        clampInt(x, lo, hi, d) == Max(lo, Min(hi, IF x.nan THEN d ELSE x.val))
        clampFloat(x, d) == Max(0, IF x.nan THEN d ELSE x.val)
    IN /\ p.fps = clampInt(parseInt(b.fps), 5, 30, 15)
       /\ p.scale = clampInt(parseInt(b.scale), 240, 1920, 480)
       /\ p.startTime = clampFloat(parseFloat(b.startTime), 0)
       /\ p.duration = clampFloat(parseFloat(b.duration), 0)
       /\ b.fps = <<"0">> => p.fps = 5
       /\ b.scale = <<"0">> => p.scale = 240

\* C11: for every raw input (numeric, non-numeric or absent) normalisation
\* yields a result, with fps an integer in 5..30, scale an integer in
\* 240..1920, startTime >= 0 and duration >= 0.
C11_NormalizedInRange ==
  params # <<>> =>
    LET p == params[1]
    IN /\ p.fps \in 5..30
       /\ p.scale \in 240..1920
       /\ p.startTime \in Nat
       /\ p.duration \in Nat

\* a negative number in every field is brought up to each lower limit
C11_Witness ==
  /\ params # <<>>
  /\ rawBody[1].fps = <<"-", "9">>
  /\ params[1] = [fps |-> 5, scale |-> 240, startTime |-> 0, duration |-> 0]

\* C12: the error of a failed /gif transcoder follows a fixed priority over its
\* diagnostic text: "Invalid data found" wins over "No such file", which wins
\* over "Permission denied"; a text with none of them gives the generic error.
C12_ClassificationPriority ==
  (reply # <<>> /\ reply[1].from = "gif-exec") =>
    LET has(phrase) == \E i \in 1..Len(errText) : errText[i] = phrase
        error == reply[1].body.error
    IN /\ has("Invalid data found") => error = "Invalid or corrupted video file"
       /\ (~has("Invalid data found") /\ has("No such file"))
            => error = "File not found or access denied"
       /\ (~has("Invalid data found") /\ ~has("No such file") /\ has("Permission denied"))
            => error = "Permission denied accessing file"
       /\ (~has("Invalid data found") /\ ~has("No such file") /\ ~has("Permission denied"))
            => error = "FFmpeg processing failed"

\* all three phrases present, the winning one last
C12_Witness ==
  /\ reply # <<>> /\ reply[1].from = "gif-exec"
  /\ errText = <<"Permission denied", "No such file", "Invalid data found">>
  /\ reply[1].body.error = "Invalid or corrupted video file"

\* C14: in every error response of every endpoint (/gif, /video-info,
\* /test-ffmpeg, the error middleware) the `details` field with the raw
\* diagnostic or error text is present only outside production mode.
C14_DetailsOnlyOutsideProduction ==
  reply # <<>> => (reply[1].body.details.present => nodeEnv # "production")

\* C13: when the exec callback of /gif runs after a clean exit, it answers
\* "no output file created" if the output path does not exist, "empty output
\* file" if it exists with zero bytes, and starts streaming otherwise; streaming
\* starts only after both checks passed, and a GIF response (status 200) is only
\* ever begun by a job that passed them.
C13_OutputVerified ==
  [][\A j \in Jobs :
       /\ (jobs[j].kind = "gif" /\ jobs[j].pc = "exited" /\ jobs'[j].pc # "exited"
            /\ jobs[j].code = 0 /\ jobs[j].signal = "none")
          => LET out      == jobs[j].outputPath
                 missing  == ~existsSync(disk, out)
                 empty    == existsSync(disk, out) /\ disk[out] = 0
             IN /\ missing => /\ jobs'[j].error = "GIF generation failed - no output file created"
                               /\ jobs'[j].status = 500 /\ jobs'[j].pc = "done"
                /\ empty => /\ jobs'[j].error = "GIF generation failed - empty output file"
                             /\ jobs'[j].status = 500 /\ jobs'[j].pc = "done"
                /\ (~missing /\ ~empty) => (jobs'[j].pc = "stream" /\ ~jobs'[j].headersSent)
                /\ jobs'[j].pc = "stream" => (~missing /\ ~empty)
       /\ (jobs'[j].kind = "gif" /\ jobs'[j].status = 200)
          => ("stream" \in jobs'[j].trace /\ jobs'[j].trace \cap {"missing", "empty"} = {})
    ]_vars

\* one job was refused for its empty output while another streams its GIF
C13_Witness ==
  \E j, k \in Jobs :
    /\ "empty" \in jobs[j].trace /\ jobs[j].status = 500
    /\ jobs[j].error = "GIF generation failed - empty output file"
    /\ "stream" \in jobs[k].trace /\ jobs[k].status = 200

\* C15: a /video-info job whose probe ran and whose callback completed answers
\* with the metadata payload exactly when the text the probe wrote to its error
\* stream contains a Duration HH:MM:SS.hh pattern, and with a 500 otherwise.
C15_ProbeTextDecides ==
  \A j \in Jobs :
    LET jr == jobs[j]
    IN (jr.kind = "info" /\ jr.spawned /\ jr.pc = "done")
       => IF durationMatch(jr.stderr)
          THEN jr.status = 200 /\ "metadata" \in jr.trace
          ELSE jr.status = 500

\* C16: while a /gif job is streaming its output (from the start of the stream
\* until its end or error), no step of any job removes one of its temp files.
C16_NoDeletionWhileStreaming ==
  [][\A j \in Jobs :
       (jobs[j].pc = "stream" /\ jobs'[j].pc = "stream")
       => /\ existsSync(disk, jobs[j].inputPath) => existsSync(disk', jobs[j].inputPath)
          /\ existsSync(disk, jobs[j].outputPath) => existsSync(disk', jobs[j].outputPath)
    ]_vars

\* C17: a temp-file deletion that raises is caught where it happens: a /gif or
\* /video-info job in which a deletion raised still sends its response.
C17_DeletionFailureContained ==
  \A j \in Jobs :
    (jobs[j].delErr /\ jobs[j].pc \in Final) => jobs[j].headersSent

\* C18: cleanup of a /gif job tries each path on its own: when the deletion of
\* the input file fails, the deletion of an existing output file is still
\* attempted, so no cleanup ends with an existing output file left untried.
C18_PathsDeletedIndependently ==
  \A j \in Jobs :
    jobs[j].kind = "gif" => "outputSkipped" \notin jobs[j].trace

\* C19: per /gif request at most one response is sent: no handler of the request
\* tries to send a response after one was sent or begun, so no
\* headers-already-sent exception is raised, on any order of the exit and
\* completion events.
C19_AtMostOneResponse ==
  \A j \in Jobs :
    jobs[j].kind = "gif" => ~jobs[j].raised

\* C20: when the output stream of a /gif job reports an error after the
\* response headers went out, the handler terminates the response.
C20_StreamErrorEndsResponse ==
  \A j \in Jobs :
    ("streamerr" \in jobs[j].trace /\ jobs[j].status = 200) => jobs[j].resEnded

====
